---- MODULE Spec2Model ----
(***************************************************************************)
(* A model of the capture engine of the webcam package (src/webcam.go):    *)
(* the Camera session, its buffer pool and streaming flag, driven by a     *)
(* single caller, over a model of the V4L2 transport it calls into         *)
(* (specification Spec); and of the capability queries, the format codes   *)
(* (src/formats.go) and the pixel pipeline (src/image.go), none of which   *)
(* reads or changes the session (specification Stateless).                 *)
(***************************************************************************)
EXTENDS Integers, Sequences, FiniteSets, TLC

\* Largest number of buffers the device grants to one request.
MaxBuf == 2
\* The length of a mapped device buffer, the largest payload of a frame.
MaxLen == 2
\* The buffer-count hint of a freshly opened Camera.
DefaultBufCount == 256

VARIABLES
  w,      \* the Camera object: bufcount, buffers, streaming
  dev,    \* the transport: the device behind w.fd and the process's mappings
  held,   \* the caller's books: indices GetFrame handed out and not yet released
  op,     \* the method of the last call
  calls,  \* the transport calls of the last call, in order, with their errors
  ret,    \* what the last call returned: err, frame, index
  args,   \* the arguments of the last call of an operation that leaves the
          \* session alone: the queries, the format codes, the pixel pipeline
  started \* history: a stream-start succeeded and neither a stream-stop call
          \* nor a close of the handle has followed it

vars == <<w, dev, held, op, calls, ret, args, started>>

----------------------------------------------------------------------------
(* Values *)

\* Go's nil error; errors are sequences of strings (a message, then the
\* error it wraps).
nil == <<>>
EIO == <<"EIO">>
EBADF == <<"EBADF">>
EINVAL == <<"EINVAL">>
EAGAIN == <<"EAGAIN">>
\* The error value of type Timeout.
Timeout == <<"Timeout">>

\* A nil []byte: no memory region, length 0.
NoFrame == [id |-> -1, len |-> 0]

\* buffer[:length] of a []byte; Go panics when length exceeds the capacity.
Slice(buffer, length) == [id |-> buffer.id, len |-> length]

\* A call made by a method: its name, the index or count it passes and the
\* error it returns; a dequeue reports an index and a payload length.
Call(name, arg, err) == [name |-> name, arg |-> arg, length |-> 0, err |-> err]
Dequeued(index, length, err) ==
  [name |-> "mmapDequeueBuffer", arg |-> index, length |-> length, err |-> err]

Min(a, b) == IF a <= b THEN a ELSE b

\* A transport call that the environment makes fail: its name and argument.
Point(name, arg) == [name |-> name, arg |-> arg]

----------------------------------------------------------------------------
(* The transport: a device that owns `count` buffers of MaxLen bytes, a    *)
(* queue of the buffers handed to it (`queued`), those of them it has      *)
(* filled (`done`), the buffers mapped in the process (`mapped`) and       *)
(* whether a region of a former buffer is still mapped (`leaked`).         *)

InitDev ==
  [open |-> TRUE, on |-> FALSE, count |-> 0,
   queued |-> {}, done |-> {}, mapped |-> {}, leaked |-> FALSE]

\* request-buffers(count) -> granted count; the device frees its former
\* buffers and owns `granted` fresh ones, none of them queued. A mapping of
\* a former buffer stays in the process until it is unmapped.
mmapRequestBuffers(d, count, fault, granted) ==
  IF ~d.open THEN [dev |-> d, err |-> EBADF, count |-> count]
  ELSE IF fault THEN [dev |-> d, err |-> EIO, count |-> count]
  ELSE [dev |-> [d EXCEPT !.count = granted, !.queued = {}, !.done = {},
                          !.mapped = {}, !.leaked = @ \/ d.mapped # {}],
        err |-> nil, count |-> granted]

\* What the device may grant to a request of `count` buffers.
Grants(count) == IF count = 0 THEN {0} ELSE 1..Min(count, MaxBuf)

\* map-buffer(index) -> {memory region, length}
mmapQueryBuffer(d, index, fault) ==
  IF ~d.open THEN [dev |-> d, err |-> EBADF, buffer |-> NoFrame]
  ELSE IF fault THEN [dev |-> d, err |-> EIO, buffer |-> NoFrame]
  ELSE IF index >= d.count THEN [dev |-> d, err |-> EINVAL, buffer |-> NoFrame]
  ELSE [dev |-> [d EXCEPT !.mapped = @ \cup {index}],
        err |-> nil,
        buffer |-> [id |-> index, len |-> MaxLen]]

\* enqueue-buffer(index): hands the buffer to the device; an index the
\* device does not own a buffer for, or one it already holds, is refused.
mmapEnqueueBuffer(d, index, fault) ==
  IF ~d.open THEN [dev |-> d, err |-> EBADF]
  ELSE IF fault THEN [dev |-> d, err |-> EIO]
  ELSE IF index >= d.count \/ index \in d.queued THEN [dev |-> d, err |-> EINVAL]
  ELSE [dev |-> [d EXCEPT !.queued = @ \cup {index}], err |-> nil]

\* dequeue-buffer() -> {index, length} or not-ready: takes a filled buffer
\* off the queue, not-ready when there is none; `pick` and `used` are the
\* device's choice among its filled buffers and of the payload length.
mmapDequeueBuffer(d, fault, pick, used) ==
  IF ~d.open THEN [dev |-> d, err |-> EBADF, index |-> 0, length |-> 0]
  ELSE IF fault THEN [dev |-> d, err |-> EIO, index |-> 0, length |-> 0]
  ELSE IF pick \notin d.done THEN [dev |-> d, err |-> EAGAIN, index |-> 0, length |-> 0]
  ELSE [dev |-> [d EXCEPT !.queued = @ \ {pick}, !.done = @ \ {pick}],
        err |-> nil, index |-> pick, length |-> used]


\* unmap-buffer(region)
mmapReleaseBuffer(d, buffer, fault) ==
  IF fault THEN [dev |-> d, err |-> EIO]
  ELSE IF buffer.id \notin d.mapped THEN [dev |-> d, err |-> EINVAL]
  ELSE [dev |-> [d EXCEPT !.mapped = @ \ {buffer.id}], err |-> nil]

\* start-stream()
startStreaming(d, fault) ==
  IF ~d.open THEN [dev |-> d, err |-> EBADF]
  ELSE IF fault THEN [dev |-> d, err |-> EIO]
  ELSE [dev |-> [d EXCEPT !.on = TRUE], err |-> nil]

\* stop-stream(): the device stops and drops every buffer from its queue.
stopStreaming(d, fault) ==
  IF ~d.open THEN [dev |-> d, err |-> EBADF]
  ELSE IF fault THEN [dev |-> d, err |-> EIO]
  ELSE [dev |-> [d EXCEPT !.on = FALSE, !.queued = {}, !.done = {}], err |-> nil]

\* close of the device handle; the stream of a closed handle is off.
unixClose(d, fault) ==
  IF ~d.open THEN [dev |-> d, err |-> EBADF]
  ELSE IF fault THEN [dev |-> d, err |-> EIO]
  ELSE [dev |-> [d EXCEPT !.open = FALSE, !.on = FALSE, !.queued = {}, !.done = {}],
        err |-> nil]

\* enumerate format(index) -> format code + description or exhaustion
\* signal: `list` is what the device enumerates; an index past its end is
\* answered with the error that signals exhaustion.
getPixelFormat(d, list, index, fault) ==
  IF ~d.open THEN [code |-> 0, desc |-> "", err |-> EBADF]
  ELSE IF fault THEN [code |-> 0, desc |-> "", err |-> EIO]
  ELSE IF index >= Len(list) THEN [code |-> 0, desc |-> "", err |-> EINVAL]
  ELSE [code |-> list[index + 1].code, desc |-> list[index + 1].desc, err |-> nil]

\* The zero FrameSize.
NoSize ==
  [MinWidth |-> 0, MaxWidth |-> 0, StepWidth |-> 0,
   MinHeight |-> 0, MaxHeight |-> 0, StepHeight |-> 0]

\* enumerate frame-size(index, format) -> size or exhaustion signal:
\* `table` holds, for each format code, the sizes the device enumerates.
getFrameSize(d, table, index, code, fault) ==
  IF ~d.open THEN [size |-> NoSize, err |-> EBADF]
  ELSE IF fault THEN [size |-> NoSize, err |-> EIO]
  ELSE IF code \notin DOMAIN table \/ index >= Len(table[code])
    THEN [size |-> NoSize, err |-> EINVAL]
  ELSE [size |-> table[code][index + 1], err |-> nil]

\* negotiate format(code, width, height) -> actual code/width/height: the
\* device writes the format it settled on, `actual`, over the request.
setImageFormat(d, code, width, height, fault, actual) ==
  IF ~d.open THEN [err |-> EBADF, code |-> code, width |-> width, height |-> height]
  ELSE IF fault THEN [err |-> EIO, code |-> code, width |-> width, height |-> height]
  ELSE [err |-> nil, code |-> actual.code, width |-> actual.width,
        height |-> actual.height]

\* wait-readable(timeoutMs) -> ready/timeout: the number of handles that are
\* readable when the wait ends, 1 when the device holds a filled buffer and
\* 0 when the timeout elapsed without one; -1 and an error when it fails.
waitForFrame(d, fault) ==
  IF ~d.open THEN [count |-> -1, err |-> EBADF]
  ELSE IF fault THEN [count |-> -1, err |-> EIO]
  ELSE [count |-> IF d.done # {} THEN 1 ELSE 0, err |-> nil]

----------------------------------------------------------------------------
(* The Camera *)

\* What a method leaves behind: the Camera, the transport, the transport
\* calls it made, and the values it returns.
Result(cam, d, cs, err, frame, index) ==
  [w |-> cam, dev |-> d, calls |-> cs, err |-> err, frame |-> frame, index |-> index]

\* make([][]byte, n, n)
MakeBuffers(n) == [index \in 0..(n - 1) |-> NoFrame]

PoolSize(cam) == Cardinality(DOMAIN cam.buffers)

\* Open: a Camera with no pool, not streaming, bufcount 256.
NewCamera == [bufcount |-> DefaultBufCount, buffers |-> MakeBuffers(0), streaming |-> FALSE]

\* SetBufferCount without its check of the streaming flag.
SetBufferCountCall_Unchecked(cam, d, count) ==
  Result([cam EXCEPT !.bufcount = count], d, <<>>, nil, NoFrame, 0)

\* SetBufferCount (webcam.go:122-128)
SetBufferCountCall(cam, d, count) ==
  IF cam.streaming
    THEN Result(cam, d, <<>>, <<"Cannot set buffer count when streaming">>, NoFrame, 0)
    ELSE Result([cam EXCEPT !.bufcount = count], d, <<>>, nil, NoFrame, 0)

\* StartStreaming, the loop that maps the buffers (webcam.go:162-172);
\* faults are the transport calls that fail.
RECURSIVE MapLoop(_, _, _, _)
MapLoop(d, buffers, index, faults) ==
  IF index \notin DOMAIN buffers
    THEN [dev |-> d, buffers |-> buffers, calls |-> <<>>, err |-> nil]
    ELSE LET r == mmapQueryBuffer(d, index, Point("mmapQueryBuffer", index) \in faults)
             c == Call("mmapQueryBuffer", index, r.err)
         IN IF r.err # nil
              THEN [dev |-> r.dev, buffers |-> buffers, calls |-> <<c>>, err |-> r.err]
              ELSE LET rest == MapLoop(r.dev, [buffers EXCEPT ![index] = r.buffer],
                                       index + 1, faults)
                   IN [rest EXCEPT !.calls = <<c>> \o @]

\* The enqueue loop starting at index 1 instead of 0.
RECURSIVE EnqueueLoop_FromOne(_, _, _, _)
EnqueueLoop_FromOne(d, buffers, index, faults) ==
  IF index = 0 THEN EnqueueLoop_FromOne(d, buffers, 1, faults)
  ELSE IF index \notin DOMAIN buffers
    THEN [dev |-> d, calls |-> <<>>, err |-> nil]
    ELSE LET r == mmapEnqueueBuffer(d, index, Point("mmapEnqueueBuffer", index) \in faults)
             c == Call("mmapEnqueueBuffer", index, r.err)
         IN IF r.err # nil
              THEN [dev |-> r.dev, calls |-> <<c>>, err |-> r.err]
              ELSE LET rest == EnqueueLoop_FromOne(r.dev, buffers, index + 1, faults)
                   IN [rest EXCEPT !.calls = <<c>> \o @]

\* StartStreaming, the loop that enqueues the buffers (webcam.go:174-182)
RECURSIVE EnqueueLoop(_, _, _, _)
EnqueueLoop(d, buffers, index, faults) ==
  IF index \notin DOMAIN buffers
    THEN [dev |-> d, calls |-> <<>>, err |-> nil]
    ELSE LET r == mmapEnqueueBuffer(d, index, Point("mmapEnqueueBuffer", index) \in faults)
             c == Call("mmapEnqueueBuffer", index, r.err)
         IN IF r.err # nil
              THEN [dev |-> r.dev, calls |-> <<c>>, err |-> r.err]
              ELSE LET rest == EnqueueLoop(r.dev, buffers, index + 1, faults)
                   IN [rest EXCEPT !.calls = <<c>> \o @]

\* The stream-start step with the flag set before the error is looked at.
StartStream_Early(cam, d, cs, faults) ==
  LET r == startStreaming(d, Point("startStreaming", 0) \in faults)
      c == Call("startStreaming", 0, r.err)
      w1 == [cam EXCEPT !.streaming = TRUE]
  IN IF r.err # nil
       THEN Result(w1, r.dev, cs \o <<c>>,
                   <<"Failed to start streaming: ">> \o r.err, NoFrame, 0)
       ELSE Result(w1, r.dev, cs \o <<c>>, nil, NoFrame, 0)

\* StartStreaming, from the stream-start call on (webcam.go:184-191)
StartStream(cam, d, cs, faults) ==
  LET r == startStreaming(d, Point("startStreaming", 0) \in faults)
      c == Call("startStreaming", 0, r.err)
  IN IF r.err # nil
       THEN Result(cam, r.dev, cs \o <<c>>,
                   <<"Failed to start streaming: ">> \o r.err, NoFrame, 0)
       ELSE Result([cam EXCEPT !.streaming = TRUE], r.dev, cs \o <<c>>, nil, NoFrame, 0)

\* StartStreaming (webcam.go:150-192); `in` holds the transport's outcomes.
StartStreamingCall(cam, d, in) ==
  IF cam.streaming THEN Result(cam, d, <<>>, <<"Already streaming">>, NoFrame, 0)
  ELSE
    LET rq == mmapRequestBuffers(d, cam.bufcount, Point("mmapRequestBuffers", 0) \in in.faults,
                                 in.granted)
        c0 == <<Call("mmapRequestBuffers", cam.bufcount, rq.err)>>
        w1 == [cam EXCEPT !.bufcount = rq.count]
    IN IF rq.err # nil
         THEN Result(w1, rq.dev, c0,
                     <<"Failed to map request buffers: ">> \o rq.err, NoFrame, 0)
         ELSE
           LET mp == MapLoop(rq.dev, MakeBuffers(w1.bufcount), 0, in.faults)
               w2 == [w1 EXCEPT !.buffers = mp.buffers]
           IN IF mp.err # nil
                THEN Result(w2, mp.dev, c0 \o mp.calls,
                            <<"Failed to map memory: ">> \o mp.err, NoFrame, 0)
                ELSE
                  LET eq == EnqueueLoop(mp.dev, w2.buffers, 0, in.faults)
                  IN IF eq.err # nil
                       THEN Result(w2, eq.dev, c0 \o mp.calls \o eq.calls,
                                   <<"Failed to enqueue buffer: ">> \o eq.err, NoFrame, 0)
                       ELSE StartStream(w2, eq.dev, c0 \o mp.calls \o eq.calls,
                                        in.faults)

\* GetFrame returning the whole buffer instead of buffer[:length].
GetFrameCall_Whole(cam, d, in) ==
  LET dq == mmapDequeueBuffer(d, Point("mmapDequeueBuffer", 0) \in in.faults,
                                in.pick, in.used)
      c == <<Dequeued(dq.index, dq.length, dq.err)>>
  IN IF dq.err # nil THEN Result(cam, dq.dev, c, dq.err, NoFrame, 0)
     ELSE IF dq.index \notin DOMAIN cam.buffers
       THEN Result(cam, dq.dev, c, <<"panic: index out of range">>, NoFrame, 0)
     ELSE Result(cam, dq.dev, c, nil, cam.buffers[dq.index], dq.index)

\* GetFrame (webcam.go:209-221); indexing or slicing out of range panics.
GetFrameCall(cam, d, in) ==
  LET dq == mmapDequeueBuffer(d, Point("mmapDequeueBuffer", 0) \in in.faults,
                                in.pick, in.used)
      c == <<Dequeued(dq.index, dq.length, dq.err)>>
  IN IF dq.err # nil THEN Result(cam, dq.dev, c, dq.err, NoFrame, 0)
     ELSE IF dq.index \notin DOMAIN cam.buffers
       THEN Result(cam, dq.dev, c, <<"panic: index out of range">>, NoFrame, 0)
     ELSE IF dq.length > cam.buffers[dq.index].len
       THEN Result(cam, dq.dev, c, <<"panic: slice bounds out of range">>, NoFrame, 0)
     ELSE Result(cam, dq.dev, c, nil, Slice(cam.buffers[dq.index], dq.length), dq.index)

\* ReleaseFrame (webcam.go:224-226)
ReleaseFrameCall(cam, d, index, faults) ==
  LET r == mmapEnqueueBuffer(d, index, Point("mmapEnqueueBuffer", index) \in faults)
  IN Result(cam, r.dev, <<Call("mmapEnqueueBuffer", index, r.err)>>, r.err, NoFrame, 0)

\* ReadFrame (webcam.go:197-203): the error of ReleaseFrame is dropped and
\* the index is not returned.
ReadFrameCall(cam, d, in) ==
  LET g == GetFrameCall(cam, d, in)
  IN IF g.err = nil
       THEN LET r == ReleaseFrameCall(g.w, g.dev, g.index, in.faults)
            IN Result(r.w, r.dev, g.calls \o r.calls, g.err, g.frame, 0)
       ELSE Result(g.w, g.dev, g.calls, g.err, g.frame, 0)

\* The unmap loop going on after an unmap that failed (best effort).
RECURSIVE ReleaseLoop_BestEffort(_, _, _, _)
ReleaseLoop_BestEffort(d, buffers, index, faults) ==
  IF index \notin DOMAIN buffers
    THEN [dev |-> d, calls |-> <<>>, err |-> nil]
    ELSE LET r == mmapReleaseBuffer(d, buffers[index],
                                    Point("mmapReleaseBuffer", index) \in faults)
             c == Call("mmapReleaseBuffer", index, r.err)
             rest == ReleaseLoop_BestEffort(r.dev, buffers, index + 1, faults)
         IN [rest EXCEPT !.calls = <<c>> \o @,
                         !.err = IF r.err # nil THEN r.err ELSE @]

\* StopStreaming, the loop that unmaps the pool (webcam.go:247-252)
RECURSIVE ReleaseLoop(_, _, _, _)
ReleaseLoop(d, buffers, index, faults) ==
  IF index \notin DOMAIN buffers
    THEN [dev |-> d, calls |-> <<>>, err |-> nil]
    ELSE LET r == mmapReleaseBuffer(d, buffers[index], Point("mmapReleaseBuffer", index) \in faults)
             c == Call("mmapReleaseBuffer", index, r.err)
         IN IF r.err # nil
              THEN [dev |-> r.dev, calls |-> <<c>>, err |-> r.err]
              ELSE LET rest == ReleaseLoop(r.dev, buffers, index + 1, faults)
                   IN [rest EXCEPT !.calls = <<c>> \o @]

\* StopStreaming (webcam.go:242-255): the flag is cleared before the pool
\* is unmapped.
StopStreamingCall(cam, d, in) ==
  IF ~cam.streaming
    THEN Result(cam, d, <<>>, <<"Request to stop streaming when not streaming">>,
                NoFrame, 0)
    ELSE LET w1 == [cam EXCEPT !.streaming = FALSE]
             um == ReleaseLoop(d, w1.buffers, 0, in.faults)
         IN IF um.err # nil THEN Result(w1, um.dev, um.calls, um.err, NoFrame, 0)
            ELSE LET st == stopStreaming(um.dev, Point("stopStreaming", 0) \in in.faults)
                 IN Result(w1, st.dev, um.calls \o <<Call("stopStreaming", 0, st.err)>>,
                           st.err, NoFrame, 0)

\* Close returning the error of StopStreaming instead of dropping it.
CloseCall_Propagate(cam, d, in) ==
  LET st == IF cam.streaming
              THEN LET s == StopStreamingCall(cam, d, in)
                   IN [s EXCEPT !.calls = <<Call("StopStreaming", 0, s.err)>> \o @]
              ELSE Result(cam, d, <<>>, nil, NoFrame, 0)
      cl == unixClose(st.dev, Point("unix.Close", 0) \in in.faults)
  IN IF st.err # nil THEN st
     ELSE Result(st.w, cl.dev, st.calls \o <<Call("unix.Close", 0, cl.err)>>, cl.err,
                 NoFrame, 0)

\* Close (webcam.go:258-266)
CloseCall(cam, d, in) ==
  LET st == IF cam.streaming
              THEN LET s == StopStreamingCall(cam, d, in)
                   IN [s EXCEPT !.calls = <<Call("StopStreaming", 0, s.err)>> \o @]
              ELSE Result(cam, d, <<>>, nil, NoFrame, 0)
      cl == unixClose(st.dev, Point("unix.Close", 0) \in in.faults)
  IN Result(st.w, cl.dev, st.calls \o <<Call("unix.Close", 0, cl.err)>>, cl.err,
            NoFrame, 0)

\* A query of an enumeration as the log keeps it: the index asked for, what
\* the transport answered and its error.
Query(name, index, answer, err) ==
  [name |-> name, arg |-> index, answer |-> answer, err |-> err]

\* The map with key -> value added (result[key] = value of a Go map).
Put(result, key, value) ==
  [k \in DOMAIN result \cup {key} |-> IF k = key THEN value ELSE result[k]]

\* The loop of GetSupportedFormats that queries past a query that failed
\* on a fault, up to the end of the device's list.
RECURSIVE FormatsLoop_Skip(_, _, _, _, _)
FormatsLoop_Skip(d, in, index, result, cs) ==
  LET q == getPixelFormat(d, in.list, index, Point("getPixelFormat", index) \in in.faults)
      log == cs \o <<Query("getPixelFormat", index, [code |-> q.code, desc |-> q.desc], q.err)>>
  IN IF q.err = EIO THEN FormatsLoop_Skip(d, in, index + 1, result, log)
     ELSE IF q.err # nil THEN [result |-> result, calls |-> log]
     ELSE FormatsLoop_Skip(d, in, index + 1, Put(result, q.code, q.desc), log)

\* for index = 0; err == nil; index++ of GetSupportedFormats, from `index`
\* on: in.list is what the device enumerates, in.faults the query that fails.
RECURSIVE FormatsLoop(_, _, _, _, _)
FormatsLoop(d, in, index, result, cs) ==
  LET q == getPixelFormat(d, in.list, index, Point("getPixelFormat", index) \in in.faults)
      log == cs \o <<Query("getPixelFormat", index, [code |-> q.code, desc |-> q.desc], q.err)>>
  IN IF q.err # nil THEN [result |-> result, calls |-> log]
     ELSE FormatsLoop(d, in, index + 1, Put(result, q.code, q.desc), log)

\* GetSupportedFormats() -> map[PixelFormat]string
GetSupportedFormatsCall(cam, d, in) == FormatsLoop(d, in, 0, <<>>, <<>>)

\* for index = 0; err == nil; index++ of GetSupportedFrameSizes, from
\* `index` on: in.f is the format, in.table the device's sizes.
RECURSIVE SizesLoop(_, _, _, _, _)
SizesLoop(d, in, index, result, cs) ==
  LET q == getFrameSize(d, in.table, index, in.f, Point("getFrameSize", index) \in in.faults)
      log == cs \o <<Query("getFrameSize", index, q.size, q.err)>>
  IN IF q.err # nil THEN [result |-> result, calls |-> log]
     ELSE SizesLoop(d, in, index + 1, Append(result, q.size), log)

\* GetSupportedFrameSizes(f) -> []FrameSize
GetSupportedFrameSizesCall(cam, d, in) == SizesLoop(d, in, 0, <<>>, <<>>)

\* The negotiation as SetImageFormat logs it: the values the transport left
\* in code, width and height, and its error.
Negotiated(n) ==
  [name |-> "setImageFormat", code |-> n.code, width |-> n.width,
   height |-> n.height, err |-> n.err]

\* SetImageFormat(f, width, height) -> (PixelFormat, uint32, uint32, error);
\* in holds the arguments and the outcome of the transport call.
SetImageFormatCall(cam, d, in) ==
  LET code == in.f
      cw == in.width
      ch == in.height
      n == setImageFormat(d, code, in.width, in.height, in.fault, in.actual)
  IN IF n.err # nil
     THEN [calls |-> <<Negotiated(n)>>, code |-> 0, width |-> 0, height |-> 0,
           err |-> n.err]
     ELSE [calls |-> <<Negotiated(n)>>, code |-> n.code, width |-> cw, height |-> ch,
           err |-> nil]

\* WaitForFrame with a wait that found nothing ready reported as success.
WaitForFrameCall_Ready(cam, d, faults) ==
  LET wt == waitForFrame(d, Point("waitForFrame", 0) \in faults)
  IN Result(cam, d, <<Call("waitForFrame", wt.count, wt.err)>>, wt.err, NoFrame, 0)

\* WaitForFrame(timeout); the log keeps the count that the wait returned.
WaitForFrameCall(cam, d, faults) ==
  LET wt == waitForFrame(d, Point("waitForFrame", 0) \in faults)
      cs == <<Call("waitForFrame", wt.count, wt.err)>>
  IN IF wt.count < 0 \/ wt.err # nil THEN Result(cam, d, cs, wt.err, NoFrame, 0)
     ELSE IF wt.count = 0 THEN Result(cam, d, cs, Timeout, NoFrame, 0)
     ELSE Result(cam, d, cs, nil, NoFrame, 0)

----------------------------------------------------------------------------
(* Format codes (src/formats.go). A Go string is the sequence of its bytes, *)
(* a PixelFormat a number below 2^32.                                       *)

\* The byte ' '.
Space == 32

\* x | y and x & y of unsigned integers.
RECURSIVE Or(_, _)
Or(x, y) ==
  IF x = 0 THEN y
  ELSE IF y = 0 THEN x
  ELSE (IF x % 2 = 1 \/ y % 2 = 1 THEN 1 ELSE 0) + 2 * Or(x \div 2, y \div 2)

RECURSIVE And(_, _)
And(x, y) ==
  IF x = 0 \/ y = 0 THEN 0
  ELSE (IF x % 2 = 1 /\ y % 2 = 1 THEN 1 ELSE 0) + 2 * And(x \div 2, y \div 2)

\* uint32(x) << n of a byte x and n <= 24, which loses no bit of the 32,
\* and x >> n of a uint32.
Shl(x, n) == x * 2^n
Shr(x, n) == x \div 2^n

\* EncodeFormat with the missing bytes of a short string left zero.
EncodeFormat_ZeroPad(value) ==
  LET length == Len(value)
      a == IF 1 <= length THEN value[1] ELSE 0
      b == IF 2 <= length THEN value[2] ELSE 0
      c == IF 3 <= length THEN value[3] ELSE 0
      d == IF 4 <= length THEN value[4] ELSE 0
  IN Or(Or(Or(a, Shl(b, 8)), Shl(c, 16)), Shl(d, 24))

\* EncodeFormat(value string) PixelFormat
EncodeFormat(value) ==
  LET length == Len(value)
      a == IF 1 <= length THEN value[1] ELSE Space
      b == IF 2 <= length THEN value[2] ELSE Space
      c == IF 3 <= length THEN value[3] ELSE Space
      d == IF 4 <= length THEN value[4] ELSE Space
  IN Or(Or(Or(a, Shl(b, 8)), Shl(c, 16)), Shl(d, 24))

\* What the verb %c of fmt.Sprintf writes for a byte: the UTF-8 encoding of
\* the code point of that number.
Rune(c) == IF c < 128 THEN <<c>> ELSE <<192 + (c \div 64), 128 + (c % 64)>>

\* DecodeFormat(format PixelFormat) string
DecodeFormat(format) ==
  LET a == And(format, 255)
      b == And(Shr(format, 8), 255)
      c == And(Shr(format, 16), 255)
      d == And(Shr(format, 24), 255)
  IN Rune(a) \o Rune(b) \o Rune(c) \o Rune(d)

----------------------------------------------------------------------------
(* The pixel pipeline (src/image.go). A frame is the sequence of its bytes: *)
(* frame[i] of the code is frame[i + 1] here. A plane of an image is a      *)
(* function on 0..len-1. A decoder at work is a record of the planes it     *)
(* writes, of the number of writes to each sample (`writes`) and of whether *)
(* an index went out of range (`panic`).                                    *)

\* make([]uint8, n): n zero bytes; and len(plane).
Zeros(n) == [k \in 0..(n - 1) |-> 0]
Size(plane) == Cardinality(DOMAIN plane)

\* plane[k] = frame[j]; an index out of range panics.
Store(st, plane, k, frame, j) ==
  IF st.panic THEN st
  ELSE IF k \notin DOMAIN st[plane] \/ j < 0 \/ j >= Len(frame)
    THEN [st EXCEPT !.panic = TRUE]
  ELSE [st EXCEPT ![plane][k] = frame[j + 1], !.writes[plane][k] = @ + 1]

\* image.NewYCbCr(image.Rect(0, 0, width, height), ratio): the luma plane
\* of width*height samples and two chroma planes, halved (rounding up) in
\* width, and for 4:2:0 in height too.
NewYCbCr(width, height, ratio) ==
  LET cw == (width + 1) \div 2
      ch == IF ratio = "4:2:0" THEN (height + 1) \div 2 ELSE height
  IN [Y |-> Zeros(width * height), Cb |-> Zeros(cw * ch), Cr |-> Zeros(cw * ch),
      writes |-> [Y |-> Zeros(width * height), Cb |-> Zeros(cw * ch),
                  Cr |-> Zeros(cw * ch)],
      panic |-> FALSE]

\* A buffer of n bytes to be made the Pix of an image.
NewPix(n) == [Pix |-> Zeros(n), writes |-> [Pix |-> Zeros(n)], panic |-> FALSE]

\* The body of the loop of decodePackedYUV with the chroma samples of YUYV
\* and YVYU exchanged.
PackedGroup_Swapped(st, frame, f, i) ==
  LET ii == i * 4
  IN CASE f \in {"YVYU"} ->
            Store(Store(Store(Store(st, "Y", i * 2, frame, ii),
                  "Y", (i * 2) + 1, frame, ii + 2), "Cb", i, frame, ii + 1),
                  "Cr", i, frame, ii + 3)
       [] f \in {"YUYV", "YUNV"} ->
            Store(Store(Store(Store(st, "Y", i * 2, frame, ii),
                  "Y", (i * 2) + 1, frame, ii + 2), "Cb", i, frame, ii + 3),
                  "Cr", i, frame, ii + 1)
       [] f = "VYUY" ->
            Store(Store(Store(Store(st, "Y", i * 2, frame, ii + 1),
                  "Y", (i * 2) + 1, frame, ii + 3), "Cb", i, frame, ii + 2),
                  "Cr", i, frame, ii)
       [] f = "UYVY" ->
            Store(Store(Store(Store(st, "Y", i * 2, frame, ii + 1),
                  "Y", (i * 2) + 1, frame, ii + 3), "Cb", i, frame, ii),
                  "Cr", i, frame, ii + 2)
       [] OTHER -> st

\* The body of the loop of decodePackedYUV: the switch on f for group i.
PackedGroup(st, frame, f, i) ==
  LET ii == i * 4
  IN CASE f \in {"YUYV", "YUNV"} ->
            Store(Store(Store(Store(st, "Y", i * 2, frame, ii),
                  "Y", (i * 2) + 1, frame, ii + 2), "Cb", i, frame, ii + 1),
                  "Cr", i, frame, ii + 3)
       [] f = "YVYU" ->
            Store(Store(Store(Store(st, "Y", i * 2, frame, ii),
                  "Y", (i * 2) + 1, frame, ii + 2), "Cb", i, frame, ii + 3),
                  "Cr", i, frame, ii + 1)
       [] f = "VYUY" ->
            Store(Store(Store(Store(st, "Y", i * 2, frame, ii + 1),
                  "Y", (i * 2) + 1, frame, ii + 3), "Cb", i, frame, ii + 2),
                  "Cr", i, frame, ii)
       [] f = "UYVY" ->
            Store(Store(Store(Store(st, "Y", i * 2, frame, ii + 1),
                  "Y", (i * 2) + 1, frame, ii + 3), "Cb", i, frame, ii),
                  "Cr", i, frame, ii + 2)
       [] OTHER -> st

\* The bodies of the loops of decodePlanarYUV: the luma copy, the chroma
\* plane that follows the luma plane and the one after it, and the
\* interleaved pairs.
LumaCopy(st, frame, i) == Store(st, "Y", i, frame, i)
FirstPlane(st, plane, frame, i) == Store(st, plane, i, frame, i + Size(st.Y))
SecondPlane(st, plane, frame, i) ==
  Store(st, plane, i, frame, i + Size(st.Y) + Size(st.Cr))
Interleaved(st, first, second, frame, i) ==
  LET ii == 2 * i
  IN Store(Store(st, first, i, frame, Size(st.Y) + ii), second, i, frame,
           Size(st.Y) + ii + 1)

\* The body of the NV12 and NV21 loops of the earlier decodePlanarYUV.
Adjacent(st, first, second, frame, i) ==
  Store(Store(st, first, i, frame, i + Size(st.Y)), second, i, frame,
        i + Size(st.Y) + 1)

\* The body of the loops of decodeRGB and decodeRGBA: every third (fourth)
\* index starts a pixel.
PixelRGB(st, frame, f, i) ==
  IF i % 3 # 0 THEN st
  ELSE CASE f = "RGB3" ->
              Store(Store(Store(st, "Pix", i, frame, i), "Pix", i + 1, frame, i + 1),
                    "Pix", i + 2, frame, i + 2)
         [] f = "BGR3" ->
              Store(Store(Store(st, "Pix", i, frame, i + 2), "Pix", i + 1, frame, i + 1),
                    "Pix", i + 2, frame, i)
         [] OTHER -> st

PixelRGBA(st, frame, f, i) ==
  IF i % 4 # 0 THEN st
  ELSE CASE f = "RGB4" ->
              Store(Store(Store(Store(st, "Pix", i, frame, i + 2),
                    "Pix", i + 1, frame, i + 1), "Pix", i + 2, frame, i),
                    "Pix", i + 3, frame, i + 3)
         [] f = "BGR4" ->
              Store(Store(Store(Store(st, "Pix", i, frame, i),
                    "Pix", i + 1, frame, i + 1), "Pix", i + 2, frame, i + 2),
                    "Pix", i + 3, frame, i + 3)
         [] OTHER -> st

\* One pass of the loop `loop` of a decoder.
Body(loop, st, frame, f, i) ==
  CASE loop = "packed" -> PackedGroup(st, frame, f, i)
    [] loop = "luma" -> LumaCopy(st, frame, i)
    [] loop = "Cb first" -> FirstPlane(st, "Cb", frame, i)
    [] loop = "Cr first" -> FirstPlane(st, "Cr", frame, i)
    [] loop = "Cb second" -> SecondPlane(st, "Cb", frame, i)
    [] loop = "Cr second" -> SecondPlane(st, "Cr", frame, i)
    [] loop = "Cb/Cr" -> Interleaved(st, "Cb", "Cr", frame, i)
    [] loop = "Cr/Cb" -> Interleaved(st, "Cr", "Cb", frame, i)
    [] loop = "Cb,Cr" -> Adjacent(st, "Cb", "Cr", frame, i)
    [] loop = "Cr,Cb" -> Adjacent(st, "Cr", "Cb", frame, i)
    [] loop = "rgb" -> PixelRGB(st, frame, f, i)
    [] loop = "rgba" -> PixelRGBA(st, frame, f, i)

\* for i := range of n elements, from lo up to hi - 1, in order; a panic
\* ends it. (The passes lo..mid-1, then the passes mid..hi-1.)
RECURSIVE ForRange(_, _, _, _, _, _)
ForRange(loop, st, frame, f, lo, hi) ==
  IF st.panic \/ lo >= hi THEN st
  ELSE IF hi = lo + 1 THEN Body(loop, st, frame, f, lo)
  ELSE LET mid == (lo + hi) \div 2
           half == ForRange(loop, st, frame, f, lo, mid)
       IN ForRange(loop, half, frame, f, mid, hi)

\* What a decoder returns: the image and a nil error, or a panic.
Decoded(kind, st, width, height) ==
  [kind |-> kind, img |-> st, width |-> width, height |-> height,
   err |-> nil, panic |-> st.panic]

\* decodePackedYUV(frame, f, width, height) -> (image.Image, error)
decodePackedYUV(frame, f, width, height) ==
  LET yuyv == NewYCbCr(width, height, "4:2:2")
  IN Decoded("YCbCr 4:2:2", ForRange("packed", yuyv, frame, f, 0, Size(yuyv.Cb)),
             width, height)

\* decodePlanarYUV(frame, f, width, height) -> (image.Image, error)
decodePlanarYUV(frame, f, width, height) ==
  LET yuv == NewYCbCr(width, height, "4:2:0")
      luma == ForRange("luma", yuv, frame, f, 0, Size(yuv.Y))
      Two(a, b) == ForRange(b, ForRange(a, luma, frame, f, 0, Size(yuv.Cr)),
                            frame, f, 0, Size(yuv.Cb))
      st == CASE f = "YU12" -> Two("Cb first", "Cr second")
              [] f = "YV12" -> Two("Cr first", "Cb second")
              [] f = "I420" -> Two("Cb first", "Cr second")
              [] f = "NV12" -> ForRange("Cb/Cr", luma, frame, f, 0, Size(yuv.Cr))
              [] f = "NV21" -> ForRange("Cr/Cb", luma, frame, f, 0, Size(yuv.Cr))
              [] OTHER -> luma
  IN Decoded("YCbCr 4:2:0", st, width, height)

\* The decodePlanarYUV that the file defines first (lines 90 to 137), which
\* returns the image as encodeJPEG compressed it.
decodePlanarYUVFirst(frame, f, width, height) ==
  LET yuv == NewYCbCr(width, height, "4:2:0")
      luma == ForRange("luma", yuv, frame, f, 0, Size(yuv.Y))
      Two(a, b) == ForRange(b, ForRange(a, luma, frame, f, 0, Size(yuv.Cr)),
                            frame, f, 0, Size(yuv.Cb))
      st == CASE f = "YU12" -> Two("Cr first", "Cb second")
              [] f = "YV12" -> Two("Cr first", "Cb second")
              [] f = "I420" -> Two("Cr first", "Cb second")
              [] f = "NV12" -> ForRange("Cb,Cr", luma, frame, f, 0, Size(yuv.Cr))
              [] f = "NV21" -> ForRange("Cr,Cb", luma, frame, f, 0, Size(yuv.Cr))
              [] OTHER -> luma
  IN Decoded("JPEG of YCbCr 4:2:0", st, width, height)

\* decodeRGB(frame, f, width, height) -> (image.Image, error); the Pix of
\* an rgb.Image holds the bytes R, G, B of each pixel.
decodeRGB(frame, f, width, height) ==
  LET pix == NewPix(3 * width * height)
  IN Decoded("RGB", ForRange("rgb", pix, frame, f, 0, Len(frame)), width, height)

\* decodeRGBA(frame, f, width, height) -> (image.Image, error); the Pix of
\* an image.RGBA holds the bytes R, G, B, A of each pixel.
decodeRGBA(frame, f, width, height) ==
  LET rgbabuf == NewPix(4 * width * height)
  IN Decoded("RGBA", ForRange("rgba", rgbabuf, frame, f, 0, Len(frame)),
             width, height)

\* The format tags of each decoder.
packedYUV == {"YUYV", "YVYU", "UYVY", "VYUY"}
planarYUV == {"YU12", "YV12", "NV12", "NV21"}
rgb == {"RGB3", "BGR3"}
rgba == {"RGB4", "BGR4"}

\* The map that init() fills: the decoder of each format tag.
formats ==
  [format \in packedYUV \cup planarYUV \cup rgb \cup rgba |->
     IF format \in packedYUV THEN "decodePackedYUV"
     ELSE IF format \in planarYUV THEN "decodePlanarYUV"
     ELSE IF format \in rgb THEN "decodeRGB"
     ELSE "decodeRGBA"]

\* encoder(frame, format, width, height) of the decoder that formats names.
Decode(encoder, frame, format, width, height) ==
  CASE encoder = "decodePackedYUV" -> decodePackedYUV(frame, format, width, height)
    [] encoder = "decodePlanarYUV" -> decodePlanarYUV(frame, format, width, height)
    [] encoder = "decodeRGB" -> decodeRGB(frame, format, width, height)
    [] encoder = "decodeRGBA" -> decodeRGBA(frame, format, width, height)

\* rotateImage(img, rotation): the rotation of the imaging package that the
\* argument selects, none for any other string.
rotateImage(img, rotation) ==
  CASE rotation \in {"90", "90CW", "90cw", "270ccw", "270CCW"} ->
         [transform |-> "Rotate90", of |-> img]
    [] rotation \in {"180", "180cw", "180CW", "180ccw", "180CCW"} ->
         [transform |-> "Rotate180", of |-> img]
    [] rotation \in {"270", "270CW", "270cw", "90ccw", "90CCW"} ->
         [transform |-> "Rotate270", of |-> img]
    [] OTHER -> img

\* resizeImage(img, width, height, quality): imaging.Resize with the filter
\* that the quality selects.
resizeImage(img, width, height, quality) ==
  [transform |-> "Resize", width |-> width, height |-> height,
   filter |-> IF quality >= 75 THEN "Lanczos"
              ELSE IF quality >= 50 THEN "CatmullRom" ELSE "Box",
   of |-> img]

\* encodeJPEG(img, quality): the JPEG of the image at that quality.
encodeJPEG(img, quality) == [jpeg |-> img, quality |-> quality]

\* What Compress returns, and the steps of the pipeline that ran. A panic
\* of a decoder ends the call: it returns nothing.
Compressed(frame, msg, err, steps) ==
  [frame |-> frame, msg |-> msg, err |-> err, steps |-> steps, panic |-> FALSE]
Panicked(steps) ==
  [frame |-> nil, msg |-> "", err |-> <<"panic: index out of range">>,
   steps |-> steps, panic |-> TRUE]

\* Compress with the check of the inputs left out.
Compress_Unchecked(frame, format, width, height, quality, rotation, rwidth, rheight) ==
  IF format \notin DOMAIN formats
  THEN IF format = "JPEG" \/ format = "MJPG"
       THEN Compressed(frame, "hardware compressed", nil, <<>>)
       ELSE Compressed(nil, "error encoding",
                       <<"format is not supported by this encoder", format>>, <<>>)
  ELSE LET encoder == formats[format]
           decoded == Decode(encoder, frame, format, width, height)
           rotated == rotateImage(decoded, rotation)
           resized == IF rwidth # 0
                      THEN resizeImage(rotated, rwidth, rheight, quality)
                      ELSE rotated
           steps == <<encoder, "rotateImage">>
                    \o (IF rwidth # 0 THEN <<"resizeImage">> ELSE <<>>)
                    \o <<"encodeJPEG">>
       IN IF decoded.panic THEN Panicked(<<encoder>>)
          ELSE Compressed(encodeJPEG(resized, quality), "Encoded image", nil, steps)

\* Compress with the check of the inputs ahead of the check of the format.
Compress_CheckedFirst(frame, format, width, height, quality, rotation, rwidth, rheight) ==
  IF width <= 10 \/ height <= 10 \/ Len(frame) <= 10
  THEN Compressed(nil, "error encoding", <<"input error">>, <<>>)
  ELSE Compress_Unchecked(frame, format, width, height, quality, rotation,
                          rwidth, rheight)

\* Compress(frame, format, width, height, quality, rotation, rwidth, rheight)
\* -> ([]byte, string, error)
Compress(frame, format, width, height, quality, rotation, rwidth, rheight) ==
  IF format \notin DOMAIN formats
  THEN IF format = "JPEG" \/ format = "MJPG"
       THEN Compressed(frame, "hardware compressed", nil, <<>>)
       ELSE Compressed(nil, "error encoding",
                       <<"format is not supported by this encoder", format>>, <<>>)
  ELSE IF width <= 10 \/ height <= 10 \/ Len(frame) <= 10
  THEN Compressed(nil, "error encoding", <<"input error">>, <<>>)
  ELSE LET encoder == formats[format]
           decoded == Decode(encoder, frame, format, width, height)
           rotated == rotateImage(decoded, rotation)
           resized == IF rwidth # 0
                      THEN resizeImage(rotated, rwidth, rheight, quality)
                      ELSE rotated
           steps == <<encoder, "rotateImage">>
                    \o (IF rwidth # 0 THEN <<"resizeImage">> ELSE <<>>)
                    \o <<"encodeJPEG">>
       IN IF decoded.panic THEN Panicked(<<encoder>>)
          ELSE Compressed(encodeJPEG(resized, quality), "Encoded image", nil, steps)

\* CompressionAvailable(format) -> bool
CompressionAvailable(format) == format \in DOMAIN formats

----------------------------------------------------------------------------
(* The state machine: one caller invoking the methods, and the device.     *)

Returned(r) == [err |-> r.err, frame |-> r.frame, index |-> r.index]

Init ==
  /\ w = NewCamera
  /\ dev = InitDev
  /\ held = {}
  /\ op = "Open"
  /\ calls = <<>>
  /\ ret = [err |-> nil, frame |-> NoFrame, index |-> 0]
  /\ args = <<>>
  /\ started = FALSE

\* What the transport calls `cs`, in order, leave of `s`: a stream-start
\* that succeeded sets it; a stream-stop call, whatever its outcome, and a
\* close of the handle that succeeded clear it.
RECURSIVE StreamAfter(_, _)
StreamAfter(cs, s) ==
  IF cs = <<>> THEN s
  ELSE LET c == Head(cs)
       IN StreamAfter(Tail(cs),
            IF c.name = "startStreaming" /\ c.err = nil THEN TRUE
            ELSE IF c.name = "stopStreaming" THEN FALSE
            ELSE IF c.name = "unix.Close" /\ c.err = nil THEN FALSE
            ELSE s)

\* The method `name` ran with result r; h is the caller's books after it.
\* The caller makes no call on a Camera whose Close has closed the handle.
Done(name, r, h) ==
  /\ dev.open
  /\ w' = r.w
  /\ dev' = r.dev
  /\ held' = h
  /\ op' = name
  /\ calls' = r.calls
  /\ ret' = Returned(r)
  /\ started' = StreamAfter(r.calls, started)
  /\ UNCHANGED args

\* The environment's choices: no fault, or one of the given calls fails.
OneOf(points) == {{}} \cup {{p} : p \in points}

Indexed(name, n) == {Point(name, index) : index \in 0..(n - 1)}

\* The outcomes of the transport calls of StartStreaming: what the device
\* grants, and the call that fails, if any.
StartInputs(cam) ==
  UNION {[granted : {g},
          faults : OneOf({Point("mmapRequestBuffers", 0), Point("startStreaming", 0)}
                         \cup Indexed("mmapQueryBuffer", g)
                         \cup Indexed("mmapEnqueueBuffer", g))] : g \in Grants(cam.bufcount)}

\* The outcomes of a dequeue: a fault, or the device's choice of a filled
\* buffer and of its payload length (not-ready when it has none).
Dequeues(d) ==
  {[faults |-> {Point("mmapDequeueBuffer", 0)}, pick |-> 0, used |-> 0]}
  \cup (IF d.done = {} THEN {[faults |-> {}, pick |-> 0, used |-> 0]}
        ELSE [faults : {{}}, pick : d.done, used : 0..MaxLen])

\* The outcomes of the calls of ReadFrame: those of the dequeue, and of the
\* enqueue that follows a dequeue that succeeds.
ReadInputs(d) ==
  Dequeues(d) \cup {[in EXCEPT !.faults = {Point("mmapEnqueueBuffer", in.pick)}] :
                      in \in {x \in Dequeues(d) : x.faults = {} /\ d.done # {}}}

\* The outcomes of the calls of StopStreaming.
StopInputs(cam) ==
  [faults : OneOf({Point("stopStreaming", 0)}
                  \cup Indexed("mmapReleaseBuffer", PoolSize(cam)))]

\* The outcomes of the calls of Close: those of StopStreaming, and of the close.
CloseInputs(cam) ==
  {[faults |-> in.faults \cup close] :
     in \in StopInputs(cam), close \in OneOf({Point("unix.Close", 0)})}

\* The indices a caller may pass to ReleaseFrame.
Indices == 0..MaxBuf

\* The caller's books after each call: StartStreaming hands out a fresh
\* pool, GetFrame an index, ReleaseFrame takes one back; ReadFrame does both
\* for the caller; the indices of a stopped session are void.
HeldAfterStart(h, r) == IF r.err = nil THEN {} ELSE h
HeldAfterGet(h, r) == IF r.err = nil THEN h \cup {r.index} ELSE h
HeldAfterRelease(h, index, r) == IF r.err = nil THEN h \ {index} ELSE h
HeldAfterRead(h, r) ==
  LET got == IF r.err = nil THEN h \cup {r.calls[1].arg} ELSE h
  IN IF r.err = nil /\ r.calls[2].err = nil THEN got \ {r.calls[2].arg} ELSE got
HeldAfterStop(h, cam) == IF cam.streaming THEN {} ELSE h

SetBufferCount ==
  \E count \in 0..MaxBuf :
    Done("SetBufferCount", SetBufferCountCall(w, dev, count), held)

StartStreaming ==
  \E in \in StartInputs(w) :
    LET r == StartStreamingCall(w, dev, in)
    IN Done("StartStreaming", r, HeldAfterStart(held, r))

GetFrame ==
  \E in \in Dequeues(dev) :
    LET r == GetFrameCall(w, dev, in)
    IN Done("GetFrame", r, HeldAfterGet(held, r))

ReleaseFrame ==
  \E index \in Indices :
    \E faults \in OneOf({Point("mmapEnqueueBuffer", index)}) :
      LET r == ReleaseFrameCall(w, dev, index, faults)
      IN Done("ReleaseFrame", r, HeldAfterRelease(held, index, r))

ReadFrame ==
  \E in \in ReadInputs(dev) :
    LET r == ReadFrameCall(w, dev, in)
    IN Done("ReadFrame", r, HeldAfterRead(held, r))

WaitForFrame ==
  \E faults \in OneOf({Point("waitForFrame", 0)}) :
    Done("WaitForFrame", WaitForFrameCall(w, dev, faults), held)

StopStreaming ==
  \E in \in StopInputs(w) :
    Done("StopStreaming", StopStreamingCall(w, dev, in), HeldAfterStop(held, w))

Close ==
  \E in \in CloseInputs(w) :
    Done("Close", CloseCall(w, dev, in), HeldAfterStop(held, w))

\* The device fills a buffer of its queue while its stream is on.
DeviceFill ==
  /\ dev.open /\ dev.on
  /\ \E index \in dev.queued \ dev.done :
       dev' = [dev EXCEPT !.done = @ \cup {index}]
  /\ op' = "device"
  /\ calls' = <<>>
  /\ ret' = [err |-> nil, frame |-> NoFrame, index |-> 0]
  /\ UNCHANGED <<w, held, args, started>>

Next ==
  \/ SetBufferCount
  \/ StartStreaming
  \/ GetFrame
  \/ ReleaseFrame
  \/ ReadFrame
  \/ WaitForFrame
  \/ StopStreaming
  \/ Close
  \/ DeviceFill

Spec == Init /\ [][Next]_vars

----------------------------------------------------------------------------
(* The operations that leave the session alone, called on a freshly opened *)
(* Camera: the capability queries of src/webcam.go, the format codes of    *)
(* src/formats.go and the pixel pipeline of src/image.go.                  *)

\* The longest list of formats or of frame sizes that the device enumerates.
MaxList == 3

\* The operation `name` ran on the arguments `in`, made the calls `cs` and
\* returned `out`. None of these operations depends on an earlier call:
\* each behaviour makes one call, on the Camera as it was opened.
Applied(name, in, cs, out) ==
  /\ op = "Open"
  /\ op' = name
  /\ args' = in
  /\ calls' = cs
  /\ ret' = out
  /\ UNCHANGED <<w, dev, held, started>>

\* The sequences over S of at most n elements.
UpTo(S, n) == UNION {[1..k -> S] : k \in 0..n}

\* Strings of 1 to 4 bytes over printable ASCII: ' ', '4', 'U', 'Y', '~'.
Tags == UpTo({32, 52, 85, 89, 126}, 4) \ {<<>>}

\* Codes that are no tag of printable bytes: they hold the bytes 0, 127, 128
\* and 255.
OtherCodes == {0, 128, 255 * 2^8, 127 * 2^24}

\* The format codes of "YUYV" and "MJPG".
YUYV == EncodeFormat(<<89, 85, 89, 86>>)
MJPG == EncodeFormat(<<77, 74, 80, 71>>)

\* What a device may enumerate: a code twice, under two descriptions.
FormatEntries ==
  {[code |-> YUYV, desc |-> "YUYV 4:2:2"], [code |-> MJPG, desc |-> "Motion-JPEG"],
   [code |-> YUYV, desc |-> "YUYV (emulated)"]}

\* The outcomes of the queries of GetSupportedFormats: the device's list,
\* and the query that fails before its end, if any.
FormatsInputs ==
  UNION {[list : {l}, faults : OneOf(Indexed("getPixelFormat", Len(l) + 1))] :
           l \in UpTo(FormatEntries, MaxList)}

\* A fixed frame size and a stepwise one.
Sizes ==
  {[MinWidth |-> 640, MaxWidth |-> 640, StepWidth |-> 0,
    MinHeight |-> 480, MaxHeight |-> 480, StepHeight |-> 0],
   [MinWidth |-> 320, MaxWidth |-> 640, StepWidth |-> 160,
    MinHeight |-> 240, MaxHeight |-> 480, StepHeight |-> 160]}

\* The outcomes of the queries of GetSupportedFrameSizes: the format asked
\* for, the sizes the device has for YUYV (it has none for another format)
\* and the query that fails, if any.
SizesInputs ==
  UNION {[f : {YUYV, MJPG}, table : {[c \in {YUYV} |-> l]},
          faults : OneOf(Indexed("getFrameSize", Len(l) + 1))] :
           l \in UpTo(Sizes, MaxList)}

\* The requests of SetImageFormat and what the device may settle on: the
\* request itself or another format or resolution.
Resolutions == {[width |-> 320, height |-> 240], [width |-> 640, height |-> 480]}
FormatRequests ==
  {[f |-> f, width |-> r.width, height |-> r.height, fault |-> fault,
    actual |-> [code |-> c, width |-> a.width, height |-> a.height]] :
     f \in {YUYV, MJPG}, r \in Resolutions, fault \in BOOLEAN,
     c \in {YUYV, MJPG}, a \in Resolutions}

\* A frame of n bytes that count up from `base`, modulo 256: no two of its
\* first 256 bytes are equal, so that a byte of a decoded image tells the
\* index it was read from.
Ramp(n, base) == [i \in 1..n |-> (base + i - 1) % 256]

\* The tags the decoders are documented to support, by family, the two
\* tags of hardware JPEG, and a tag that is neither.
Documented ==
  [decodePackedYUV |-> {"YUYV", "YVYU", "UYVY", "VYUY", "YUNV"},
   decodePlanarYUV |-> {"YU12", "YV12", "I420", "NV12", "NV21"},
   decodeRGB |-> {"RGB3", "BGR3"},
   decodeRGBA |-> {"RGB4", "BGR4"}]
Family(format) ==
  IF \E d \in DOMAIN Documented : format \in Documented[d]
  THEN CHOOSE d \in DOMAIN Documented : format \in Documented[d]
  ELSE "none"
HardwareJPEG == {"JPEG", "MJPG"}
AllTags == UNION {Documented[d] : d \in DOMAIN Documented} \cup HardwareJPEG \cup {"H264"}

\* The length of a frame of the format at width x height: 2 bytes a pixel
\* packed, a luma plane and two quarter planes planar, 3 or 4 bytes a pixel
\* RGB; a compressed frame has any length.
FrameLen(format, width, height) ==
  CASE Family(format) = "decodePackedYUV" -> 2 * width * height
    [] Family(format) = "decodePlanarYUV" ->
         (width * height) + (2 * ((width + 1) \div 2) * ((height + 1) \div 2))
    [] Family(format) = "decodeRGB" -> 3 * width * height
    [] Family(format) = "decodeRGBA" -> 4 * width * height
    [] OTHER -> 64

\* The calls of Compress: every tag, widths (an odd one too) and heights at
\* and above the least that passes, a frame of the full length, one byte
\* longer, or of 10 or 11 bytes, and with and without rotation and resize.
CompressInputs ==
  {[frame |-> Ramp(IF short = 0 THEN FrameLen(format, width, height) + extra
                   ELSE short, 0),
    format |-> format, width |-> width, height |-> height, quality |-> quality,
    rotation |-> rotation, rwidth |-> rwidth, rheight |-> 0] :
     format \in AllTags, width \in {10, 11, 12}, height \in {10, 12},
     short \in {0, 10, 11}, extra \in {0, 1}, quality \in {50, 80},
     rotation \in {"", "90"}, rwidth \in {0, 6}}

\* The calls of a decoder: its tags and one of another decoder, small
\* images, and a frame of the full length from two bases or one byte short.
DecoderInputs(tags, widths, heights) ==
  {[frame |-> Ramp(FrameLen(f, width, height) - short, base),
    f |-> f, width |-> width, height |-> height] :
     f \in tags, width \in widths, height \in heights,
     short \in {0, 1}, base \in {0, 250}}

CallCompress ==
  \E in \in CompressInputs :
    LET r == Compress(in.frame, in.format, in.width, in.height, in.quality,
                      in.rotation, in.rwidth, in.rheight)
    IN Applied("Compress", in, r.steps, [frame |-> r.frame, msg |-> r.msg, err |-> r.err])

CallCompressionAvailable ==
  \E format \in AllTags :
    LET ok == CompressionAvailable(format)
    IN Applied("CompressionAvailable", format, <<>>, ok)

CallDecodePackedYUV ==
  \E in \in DecoderInputs(Documented.decodePackedYUV, {2, 3, 4}, {1, 2}) :
    LET r == decodePackedYUV(in.frame, in.f, in.width, in.height)
    IN Applied("decodePackedYUV", in, <<>>, r)

CallDecodePlanarYUV ==
  \E in \in DecoderInputs(Documented.decodePlanarYUV, {2, 4}, {2, 4}) :
    LET r == decodePlanarYUV(in.frame, in.f, in.width, in.height)
    IN Applied("decodePlanarYUV", in, <<>>, r)

CallDecodePlanarYUVFirst ==
  \E in \in DecoderInputs(Documented.decodePlanarYUV, {2, 4}, {2, 4}) :
    LET r == decodePlanarYUVFirst(in.frame, in.f, in.width, in.height)
    IN Applied("decodePlanarYUV", in, <<>>, r)

CallDecodeRGB ==
  \E in \in DecoderInputs(Documented.decodeRGB, {1, 2}, {1, 2}) :
    LET r == decodeRGB(in.frame, in.f, in.width, in.height)
    IN Applied("decodeRGB", in, <<>>, r)

CallDecodeRGBA ==
  \E in \in DecoderInputs(Documented.decodeRGBA, {1, 2}, {1, 2}) :
    LET r == decodeRGBA(in.frame, in.f, in.width, in.height)
    IN Applied("decodeRGBA", in, <<>>, r)

GetSupportedFormats ==
  \E in \in FormatsInputs :
    LET r == GetSupportedFormatsCall(w, dev, in)
    IN Applied("GetSupportedFormats", in, r.calls, r.result)

GetSupportedFrameSizes ==
  \E in \in SizesInputs :
    LET r == GetSupportedFrameSizesCall(w, dev, in)
    IN Applied("GetSupportedFrameSizes", in, r.calls, r.result)

SetImageFormat ==
  \E in \in FormatRequests :
    LET r == SetImageFormatCall(w, dev, in)
    IN Applied("SetImageFormat", in, r.calls,
               [code |-> r.code, width |-> r.width, height |-> r.height, err |-> r.err])

CallEncodeFormat ==
  \E value \in Tags :
    LET code == EncodeFormat(value)
    IN Applied("EncodeFormat", value, <<>>, code)

CallDecodeFormat ==
  \E format \in {EncodeFormat(value) : value \in Tags} \cup OtherCodes :
    LET tag == DecodeFormat(format)
    IN Applied("DecodeFormat", format, <<>>, tag)

NextStateless ==
  \/ GetSupportedFormats
  \/ GetSupportedFrameSizes
  \/ SetImageFormat
  \/ CallEncodeFormat
  \/ CallDecodeFormat
  \/ CallCompress
  \/ CallCompressionAvailable
  \/ CallDecodePackedYUV
  \/ CallDecodePlanarYUV
  \/ CallDecodePlanarYUVFirst
  \/ CallDecodeRGB
  \/ CallDecodeRGBA

Stateless == Init /\ [][NextStateless]_vars

----------------------------------------------------------------------------
(* Properties *)

Names(cs) == {cs[i].name : i \in 1..Len(cs)}
Count(cs, name) == Cardinality({i \in 1..Len(cs) : cs[i].name = name})
Failed(cs) == \E i \in 1..Len(cs) : cs[i].err # nil

\* C1: after a StartStreaming called from Idle (the one that issues calls):
\* the stream-start call is the last of 2n+2 calls, after the request, the n
\* mappings of the granted buffers 0..n-1 and then their n enqueues, all of
\* which succeeded; the flag is set only when the stream-start call
\* succeeded; and when any call failed, an error is returned and the flag
\* is still false.
C1_StartOrder ==
  (op = "StartStreaming" /\ calls # <<>>) =>
    LET n == PoolSize(w)
    IN /\ calls[1].name = "mmapRequestBuffers"
       /\ "startStreaming" \in Names(calls) =>
            /\ Len(calls) = 2 * n + 2
            /\ calls[1].err = nil
            /\ n = dev.count
            /\ \A k \in 0..(n - 1) :
                 /\ calls[2 + k] = Call("mmapQueryBuffer", k, nil)
                 /\ calls[2 + n + k] = Call("mmapEnqueueBuffer", k, nil)
                 /\ w.buffers[k] # NoFrame
            /\ calls[2 * n + 2].name = "startStreaming"
       /\ w.streaming => calls[Len(calls)] = Call("startStreaming", 0, nil)
       /\ Failed(calls) => ret.err # nil /\ ~w.streaming
       /\ ret.err = nil => w.streaming

\* A StartStreaming from Idle that mapped and enqueued two buffers and set
\* the flag.
C1_Witness ==
  /\ op = "StartStreaming" /\ ret.err = nil /\ w.streaming
  /\ PoolSize(w) >= 2 /\ Len(calls) = 2 * PoolSize(w) + 2

\* C2: StartStreaming while Streaming, StopStreaming while Idle and
\* SetBufferCount while Streaming return an error, issue no call, and leave
\* the Camera (count, pool, flag) and the transport as they were; while Idle
\* SetBufferCount sets the count.
C2_Rejected ==
  /\ w.streaming =>
       /\ \A in \in StartInputs(w) :
            LET r == StartStreamingCall(w, dev, in)
            IN r.err # nil /\ r.calls = <<>> /\ r.w = w /\ r.dev = dev
       /\ \A count \in 0..MaxBuf :
            LET r == SetBufferCountCall(w, dev, count)
            IN r.err # nil /\ r.calls = <<>> /\ r.w = w /\ r.dev = dev
  /\ ~w.streaming =>
       /\ \A in \in StopInputs(w) :
            LET r == StopStreamingCall(w, dev, in)
            IN r.err # nil /\ r.calls = <<>> /\ r.w = w /\ r.dev = dev
       /\ \A count \in 0..MaxBuf :
            LET r == SetBufferCountCall(w, dev, count)
            IN r.err = nil /\ r.w = [w EXCEPT !.bufcount = count] /\ r.dev = dev

\* A second StartStreaming was rejected while Streaming.
C2_Witness ==
  /\ op = "StartStreaming" /\ w.streaming
  /\ ret.err = <<"Already streaming">> /\ calls = <<>>

\* C3: GetFrame, ReleaseFrame and ReadFrame called while Idle fail, issue
\* no transport call and return no view of the pool. (None of the three
\* changes the flag, so the flag after the call is the flag before it.)
C3_GatedByFlag ==
  (op \in {"GetFrame", "ReleaseFrame", "ReadFrame"} /\ ~w.streaming) =>
    ret.err # nil /\ calls = <<>> /\ ret.frame = NoFrame

\* C4: after a StopStreaming called while Streaming (the one that issues
\* calls), the session is Idle only when every pool buffer was unmapped and
\* the stream-stop call was issued, and it is still Streaming when the call
\* returned an unmap error.
C4_IdleOnlyOnSuccess ==
  (op = "StopStreaming" /\ calls # <<>>) =>
    /\ ~w.streaming =>
         /\ Count(calls, "mmapReleaseBuffer") = PoolSize(w)
         /\ ~Failed(SubSeq(calls, 1, PoolSize(w)))
         /\ "stopStreaming" \in Names(calls)
    /\ (calls[Len(calls)].name = "mmapReleaseBuffer" /\ ret.err # nil) => w.streaming

\* C5: when a StartStreaming has failed at mapping or enqueue time and the
\* next call is StopStreaming or Close, no buffer that the failed call
\* mapped is still mapped after it.
C5_FailedStartCleanedUp ==
  [][(/\ op = "StartStreaming" /\ ret.err # nil
      /\ Head(ret.err) \in {"Failed to map memory: ", "Failed to enqueue buffer: "}
      /\ op' \in {"StopStreaming", "Close"})
     => dev'.mapped = {}]_vars

\* C6: after a StopStreaming called while Streaming: its unmap calls are
\* the first k calls, of the indices 0..k-1 in order, and only the last of
\* them may have failed; when it failed, that error is returned, no further
\* call was issued and the buffers after it are still mapped; the
\* stream-stop call is issued exactly when all n unmaps succeeded, as call
\* n+1.
C6_StopOrder ==
  (op = "StopStreaming" /\ calls # <<>>) =>
    LET n == PoolSize(w)
        k == Count(calls, "mmapReleaseBuffer")
    IN /\ k <= n
       /\ \A i \in 1..k :
            /\ calls[i].name = "mmapReleaseBuffer" /\ calls[i].arg = i - 1
            /\ i < k => calls[i].err = nil
            /\ calls[i].err = nil => (i - 1) \notin dev.mapped
       /\ (k > 0 /\ calls[k].err # nil) =>
            /\ Len(calls) = k
            /\ ret.err = calls[k].err
            /\ \A j \in k..(n - 1) : j \in dev.mapped
       /\ "stopStreaming" \in Names(calls) <=> (k = n /\ ~Failed(SubSeq(calls, 1, k)))
       /\ "stopStreaming" \in Names(calls) =>
            /\ Len(calls) = n + 1 /\ calls[n + 1].name = "stopStreaming"
            /\ dev.mapped = {}
            /\ ret.err = calls[n + 1].err

\* A StopStreaming over a pool of two whose first unmap failed: buffer 1 is
\* still mapped and no stream-stop call was issued.
C6_Witness ==
  /\ op = "StopStreaming" /\ PoolSize(w) = 2
  /\ calls = <<Call("mmapReleaseBuffer", 0, EIO)>>
  /\ 1 \in dev.mapped /\ dev.on

\* C7: Close calls StopStreaming exactly when the session is Streaming,
\* then issues the transport close exactly once, as its last call, and
\* returns the result of that close whatever StopStreaming returned; after
\* Close the flag is false.
C7_Close ==
  \A in \in CloseInputs(w) :
    LET r == CloseCall(w, dev, in)
        n == Len(r.calls)
    IN /\ Count(r.calls, "StopStreaming") = (IF w.streaming THEN 1 ELSE 0)
       /\ w.streaming => r.calls[1].name = "StopStreaming"
       /\ Count(r.calls, "unix.Close") = 1
       /\ r.calls[n].name = "unix.Close"
       /\ r.err = r.calls[n].err
       /\ ~r.w.streaming

\* A Close of a Streaming session whose StopStreaming failed and whose
\* close succeeded: it returned nil.
C7_Witness ==
  /\ op = "Close" /\ Len(calls) >= 2
  /\ calls[1].name = "StopStreaming" /\ calls[1].err # nil
  /\ calls[Len(calls)] = Call("unix.Close", 0, nil)
  /\ ret.err = nil /\ ~w.streaming

\* The parts of C8 that do not depend on the outcome of ReleaseFrame: after
\* a successful StartStreaming the device owns every pool buffer; while
\* Streaming each pool buffer is owned by exactly one of device and
\* application; a successful GetFrame returns an index the device owned and
\* the application did not hold, and makes it application-owned.
Ownership ==
  /\ (op = "StartStreaming" /\ ret.err = nil) =>
       dev.queued = DOMAIN w.buffers /\ held = {}
  /\ w.streaming =>
       /\ held \cap dev.queued = {}
       /\ held \cup dev.queued = DOMAIN w.buffers
       /\ \A in \in Dequeues(dev) :
            LET r == GetFrameCall(w, dev, in)
                h == HeldAfterGet(held, r)
            IN r.err = nil =>
                 /\ r.index \in dev.queued /\ r.index \notin held
                 /\ r.index \in h /\ r.index \notin r.dev.queued

\* C8 as amended: Ownership, and while Streaming ReleaseFrame on an index
\* the application holds returns the result of the transport enqueue: it
\* fails only when the transport fails the enqueue, and then the buffer
\* stays application-owned; when it succeeds the buffer is device-owned,
\* not yet filled, and no longer held.
C8_OwnershipAmended ==
  /\ Ownership
  /\ w.streaming =>
       \A index \in held :
         \A faults \in OneOf({Point("mmapEnqueueBuffer", index)}) :
           LET r == ReleaseFrameCall(w, dev, index, faults)
               h == HeldAfterRelease(held, index, r)
           IN /\ r.err = (IF faults = {} THEN nil ELSE EIO)
              /\ r.calls = <<Call("mmapEnqueueBuffer", index, r.err)>>
              /\ r.err = nil =>
                   /\ index \in r.dev.queued /\ index \notin r.dev.done
                   /\ index \notin h
              /\ r.err # nil => index \notin r.dev.queued /\ index \in h

\* GetFrame handed out buffer 1 of a pool of two, and ReleaseFrame gave it
\* back to the device.
C8_Witness ==
  /\ op = "ReleaseFrame" /\ w.streaming /\ ret.err = nil
  /\ calls = <<Call("mmapEnqueueBuffer", 1, nil)>>
  /\ PoolSize(w) = 2 /\ held = {0} /\ dev.queued = {1}

\* C8 as stated: Ownership, and while Streaming a ReleaseFrame on an index
\* the application holds succeeds. (An index held after ReleaseFrame was
\* held before it.)
C8_ReleaseSucceeds ==
  /\ Ownership
  /\ (op = "ReleaseFrame" /\ w.streaming /\ calls[1].arg \in held) => ret.err = nil

\* C9: GetFrame issues one dequeue and succeeds only when it succeeded
\* (while Streaming, whenever it succeeded); when GetFrame succeeds its
\* index is the dequeued one and lies in [0, poolSize), and its view is the
\* prefix of that pool buffer of the reported payload length, which is at
\* most the buffer's length; when the dequeue fails GetFrame returns no
\* view, index 0 and the dequeue's error, and leaves the Camera and the
\* device alone.
C9_FrameView ==
  \A in \in Dequeues(dev) :
    LET r == GetFrameCall(w, dev, in)
        dq == r.calls[1]
    IN /\ r.calls = <<dq>> /\ dq.name = "mmapDequeueBuffer"
       /\ r.w = w
       /\ (w.streaming /\ dq.err = nil) => r.err = nil
       /\ r.err = nil =>
            /\ dq.err = nil
            /\ r.index = dq.arg
            /\ r.index \in 0..(PoolSize(w) - 1)
            /\ r.frame.id = w.buffers[r.index].id
            /\ r.frame.len = dq.length
            /\ dq.length <= w.buffers[r.index].len
       /\ dq.err # nil =>
            /\ r.frame = NoFrame /\ r.index = 0 /\ r.err = dq.err
            /\ r.dev = dev

\* GetFrame returned buffer 1 with a payload shorter than the buffer.
C9_Witness ==
  /\ op = "GetFrame" /\ ret.err = nil /\ ret.index = 1
  /\ ret.frame.id = 1 /\ ret.frame.len > 0 /\ ret.frame.len < w.buffers[1].len

\* C10: ReadFrame issues one dequeue, first; when it fails, no enqueue is
\* issued and its error is returned; when it succeeds, one enqueue of the
\* dequeued index follows; and after a ReadFrame that returned success the
\* buffer it read is owned by the device and not held by the application.
C10_ReadFrame ==
  op = "ReadFrame" =>
    /\ Len(calls) >= 1 /\ calls[1].name = "mmapDequeueBuffer"
    /\ Count(calls, "mmapDequeueBuffer") = 1
    /\ calls[1].err # nil => Len(calls) = 1 /\ ret.err = calls[1].err
    /\ calls[1].err = nil =>
         /\ Len(calls) = 2
         /\ calls[2].name = "mmapEnqueueBuffer" /\ calls[2].arg = calls[1].arg
    /\ ret.err = nil => calls[1].arg \in dev.queued /\ calls[1].arg \notin held

\* What C11 says of the outcome of WaitForFrame itself: it issues one wait;
\* it returns Timeout exactly when the wait returned no error and found no
\* buffer ready, the wait's error when the wait failed, and success
\* otherwise, that is exactly when the wait found a filled buffer.
WaitOutcomes ==
  op = "WaitForFrame" =>
    LET wt == calls[1]
    IN /\ calls = <<wt>> /\ wt.name = "waitForFrame"
       /\ ret.err = Timeout <=> (wt.err = nil /\ wt.arg = 0)
       /\ wt.err # nil => ret.err = wt.err
       /\ ret.err = nil <=> (wt.err = nil /\ wt.arg > 0)
       /\ ret.err = Timeout => dev.done = {}
       /\ ret.err = nil => dev.done # {}

\* C11 as amended: WaitOutcomes, and in the state that a successful
\* WaitForFrame leaves while Streaming, the dequeue of a GetFrame finds a
\* buffer ready: GetFrame succeeds unless the transport fails the dequeue,
\* and then it returns the transport's error, never not-ready.
C11_WaitAmended ==
  /\ WaitOutcomes
  /\ (op = "WaitForFrame" /\ ret.err = nil /\ w.streaming) =>
       \A in \in Dequeues(dev) :
         LET r == GetFrameCall(w, dev, in)
         IN /\ in.faults = {} => r.err = nil /\ r.index \in dev.done
            /\ in.faults # {} => r.err = EIO

\* A WaitForFrame that returned success while Streaming, with buffer 1
\* filled.
C11_Witness ==
  /\ op = "WaitForFrame" /\ ret.err = nil /\ w.streaming
  /\ calls = <<Call("waitForFrame", 1, nil)>> /\ 1 \in dev.done

\* C11 as stated: WaitOutcomes, and in the state that a successful
\* WaitForFrame leaves while Streaming, GetFrame succeeds.
C11_WaitThenGet ==
  /\ WaitOutcomes
  /\ (op = "WaitForFrame" /\ ret.err = nil /\ w.streaming) =>
       \A in \in Dequeues(dev) : GetFrameCall(w, dev, in).err = nil

\* C12: SetImageFormat returns the code, width and height that the
\* negotiation left, also when they differ from the request; when the
\* negotiation fails it returns zeros and the error.
C12_NegotiatedReturned ==
  op = "SetImageFormat" =>
    LET n == calls[1]
    IN /\ n.err = nil =>
            /\ ret.err = nil /\ ret.code = n.code
            /\ ret.width = n.width /\ ret.height = n.height
       /\ n.err # nil => ret = [code |-> 0, width |-> 0, height |-> 0, err |-> n.err]

\* value right-padded with spaces to length 4, and the little-endian packed
\* code of four bytes.
Pad(value) == value \o [i \in 1..(4 - Len(value)) |-> Space]
Packed(p) == p[1] + (p[2] * 2^8) + (p[3] * 2^16) + (p[4] * 2^24)

FirstFailure(name, list, faults) ==
  IF \E k \in 0..Len(list) : Point(name, k) \in faults
  THEN CHOOSE k \in 0..Len(list) : Point(name, k) \in faults
  ELSE Len(list)

\* The sizes the device enumerates for the format asked for.
SizesOf(in) == IF in.f \in DOMAIN in.table THEN in.table[in.f] ELSE <<>>

Degenerate(in) == in.width <= 10 \/ in.height <= 10 \/ Len(in.frame) <= 10
InputError(err) == err = <<"input error">>
Unsupported(err) == err # nil /\ Head(err) = "format is not supported by this encoder"

\* C14 as amended: for a tag that CompressionAvailable accepts, a width or
\* height of at most 10 or a frame of at most 10 bytes makes Compress return
\* the input error and no bytes, and no decode, rotate, resize or encode
\* step runs; for another tag the format is looked at first: a hardware-JPEG
\* frame is passed through and any other tag is the unsupported-format
\* error, whatever the width, height and length.
C14_ValidationAmended ==
  (op = "Compress" /\ Degenerate(args)) =>
    /\ calls = <<>>
    /\ CompressionAvailable(args.format) => InputError(ret.err) /\ ret.frame = nil
    /\ args.format \in HardwareJPEG => ret.err = nil /\ ret.frame = args.frame
    /\ (~CompressionAvailable(args.format) /\ args.format \notin HardwareJPEG) =>
         Unsupported(ret.err) /\ ret.frame = nil

\* Compress of a YUYV frame of the full length at 10 x 12 returned the
\* input error.
C14_Witness ==
  /\ op = "Compress" /\ args.format = "YUYV" /\ args.width = 10 /\ args.height = 12
  /\ Len(args.frame) = 240 /\ InputError(ret.err) /\ calls = <<>>

\* C14 as stated: a width or height of at most 10 or a frame of at most 10
\* bytes makes Compress return the input error, and no step runs, whatever
\* the format tag is.
C14_ValidationFirst ==
  (op = "Compress" /\ Degenerate(args)) => InputError(ret.err) /\ calls = <<>>

\* C15: Compress of a frame tagged JPEG or MJPG returns the bytes of the
\* input and no error, and runs no step, whatever the other arguments are.
C15_Passthrough ==
  (op = "Compress" /\ args.format \in HardwareJPEG) =>
    ret.frame = args.frame /\ ret.err = nil /\ calls = <<>>

\* Compress of an MJPG frame of 10 bytes at 10 x 10, with a rotation and a
\* resize asked for, returned the 10 bytes.
C15_Witness ==
  /\ op = "Compress" /\ args.format = "MJPG" /\ args.width = 10 /\ args.height = 10
  /\ args.rotation = "90" /\ args.rwidth = 6
  /\ Len(ret.frame) = 10 /\ ret.frame = args.frame /\ ret.err = nil

\* C16: Compress runs the decoder of the family of every documented tag
\* (on inputs that pass the check), returns the unsupported-format error
\* for exactly the tags that are neither documented nor hardware JPEG, and
\* CompressionAvailable is true for exactly the documented tags.
C16_Dispatch ==
  /\ op = "Compress" =>
       /\ (Family(args.format) # "none" /\ ~Degenerate(args)) =>
            calls # <<>> /\ calls[1] = Family(args.format)
       /\ Unsupported(ret.err) <=>
            (Family(args.format) = "none" /\ args.format \notin HardwareJPEG)
  /\ op = "CompressionAvailable" => (ret <=> Family(args) # "none")

\* frame[j] of the call's frame.
Byte(j) == args.frame[j + 1]

\* Every sample of the plane was written once.
WrittenOnce(plane) == \A k \in DOMAIN ret.img.writes[plane] : ret.img.writes[plane][k] = 1

\* Where the two luma bytes and the chroma bytes of a 4-byte group lie.
PackedOrder ==
  [YUYV |-> [Y0 |-> 0, Cb |-> 1, Y1 |-> 2, Cr |-> 3],
   YVYU |-> [Y0 |-> 0, Cr |-> 1, Y1 |-> 2, Cb |-> 3],
   UYVY |-> [Cb |-> 0, Y0 |-> 1, Cr |-> 2, Y1 |-> 3],
   VYUY |-> [Cr |-> 0, Y0 |-> 1, Cb |-> 2, Y1 |-> 3]]

\* C17: decodePackedYUV of a frame of even width and of 2 bytes a pixel,
\* tagged YUYV, YVYU, UYVY or VYUY: it does not fail; for every 4-byte
\* group i, Y[2i], Y[2i+1], Cb[i] and Cr[i] are the bytes of the group at
\* the places of the tag's order; and every sample of the three planes was
\* written exactly once.
C17_PackedExact ==
  (/\ op = "decodePackedYUV" /\ args.f \in DOMAIN PackedOrder
   /\ args.width % 2 = 0 /\ Len(args.frame) = 2 * args.width * args.height) =>
    LET at == PackedOrder[args.f]
        n == (args.width * args.height) \div 2
    IN /\ ~ret.panic /\ ret.err = nil
       /\ DOMAIN ret.img.Y = 0..((2 * n) - 1)
       /\ DOMAIN ret.img.Cb = 0..(n - 1) /\ DOMAIN ret.img.Cr = 0..(n - 1)
       /\ \A i \in 0..(n - 1) :
            /\ ret.img.Y[2 * i] = Byte((4 * i) + at.Y0)
            /\ ret.img.Y[(2 * i) + 1] = Byte((4 * i) + at.Y1)
            /\ ret.img.Cb[i] = Byte((4 * i) + at.Cb)
            /\ ret.img.Cr[i] = Byte((4 * i) + at.Cr)
       /\ WrittenOnce("Y") /\ WrittenOnce("Cb") /\ WrittenOnce("Cr")

\* decodePackedYUV of a 4 x 2 YVYU frame of the bytes 0..15: group 1 is the
\* bytes 4, 5, 6, 7, of which 4 and 6 are luma, 5 is Cr and 7 is Cb.
C17_Witness ==
  /\ op = "decodePackedYUV" /\ args.f = "YVYU" /\ args.width = 4 /\ args.height = 2
  /\ args.frame = Ramp(16, 0) /\ ~ret.panic
  /\ ret.img.Y[2] = 4 /\ ret.img.Y[3] = 6 /\ ret.img.Cr[1] = 5 /\ ret.img.Cb[1] = 7

\* C18: decodePlanarYUV of a W x H frame, W and H even, of W*H*3/2 bytes:
\* the luma plane is the first W*H bytes; for YU12 and I420 the Cb plane is
\* the next W*H/4 bytes and the Cr plane the W*H/4 after it, for YV12 the
\* other way round; for NV12 Cb[i] and Cr[i] are the bytes W*H+2i and
\* W*H+2i+1, for NV21 Cr[i] and Cb[i].
C18_PlanarLayout ==
  (/\ op = "decodePlanarYUV" /\ args.width % 2 = 0 /\ args.height % 2 = 0
   /\ Len(args.frame) = (3 * args.width * args.height) \div 2) =>
    LET n == args.width * args.height
        q == n \div 4
        CbAt(i) == CASE args.f \in {"YU12", "I420"} -> n + i
                     [] args.f = "YV12" -> n + q + i
                     [] args.f = "NV12" -> n + (2 * i)
                     [] args.f = "NV21" -> n + (2 * i) + 1
        CrAt(i) == CASE args.f \in {"YU12", "I420"} -> n + q + i
                     [] args.f = "YV12" -> n + i
                     [] args.f = "NV12" -> n + (2 * i) + 1
                     [] args.f = "NV21" -> n + (2 * i)
    IN /\ ~ret.panic /\ ret.err = nil
       /\ \A k \in 0..(n - 1) : ret.img.Y[k] = Byte(k)
       /\ \A i \in 0..(q - 1) :
            ret.img.Cb[i] = Byte(CbAt(i)) /\ ret.img.Cr[i] = Byte(CrAt(i))

\* C19: decodeRGB and decodeRGBA of a frame of 3 (4) bytes a pixel: the
\* red, green and blue samples of every pixel of the image are the red,
\* green and blue bytes of that pixel of the frame, which are its bytes 0,
\* 1, 2 for RGB3 and RGB4 and its bytes 2, 1, 0 for BGR3 and BGR4; the
\* alpha sample of RGB4 and BGR4 is byte 3.
C19_ChannelOrder ==
  (/\ op \in {"decodeRGB", "decodeRGBA"}
   /\ Len(args.frame) = FrameLen(args.f, args.width, args.height)) =>
    LET bpp == IF op = "decodeRGB" THEN 3 ELSE 4
        red == IF args.f \in {"RGB3", "RGB4"} THEN 0 ELSE 2
        blue == 2 - red
    IN /\ ~ret.panic /\ ret.err = nil
       /\ \A k \in 0..((args.width * args.height) - 1) :
            /\ ret.img.Pix[bpp * k] = Byte((bpp * k) + red)
            /\ ret.img.Pix[(bpp * k) + 1] = Byte((bpp * k) + 1)
            /\ ret.img.Pix[(bpp * k) + 2] = Byte((bpp * k) + blue)
            /\ bpp = 4 => ret.img.Pix[(bpp * k) + 3] = Byte((bpp * k) + 3)


\* C21: the streaming flag agrees with the device stream: whenever the flag
\* is false, every stream-start that succeeded has been followed by a
\* stream-stop call (or by the close of the handle), so that no stream is
\* left on for a later StartStreaming to request buffers and start under.
C21_FlagAgrees == ~w.streaming => ~started


\* A call that passes the checks of Compress and reaches a decoder.
Decodes(in) == in.format \in DOMAIN formats /\ ~Degenerate(in)

\* C22: Compress never reads or writes out of range: a call with a decoded
\* format, a width and a height above 10 and a frame of more than 10 bytes
\* returns a result or an error and does not fault, whether the frame is
\* shorter or longer than the width, height and format imply, and whether
\* the width or the height is odd.
C22_InRange ==
  (op = "Compress" /\ Decodes(args)) => ret.err # Panicked(calls).err

====
